---- MODULE Spec2Model ----
(***************************************************************************)
(* GoogleAPIsStrategy (src/index.js): a passport strategy that runs the    *)
(* OAuth2 authorization-code flow against Google.  The model follows       *)
(* authenticate() handler by handler: the call itself, the getToken        *)
(* callback, the userinfo.get callback, and the calls the application's    *)
(* verify callback makes to verified() (or the exception it throws).       *)
(*                                                                         *)
(* JavaScript values are tagged records: the field t is the tag, so that   *)
(* undefined, null, the empty string and objects stay distinct and         *)
(* truthiness is computed the way the language computes it.                *)
(***************************************************************************)
EXTENDS Integers, Sequences, FiniteSets, TLC

\* ------------------------------------------------------------------ bounds

\* How many times the application's verify callback may call verified().
MaxDone == 2

\* The authenticate attempts that run on the one strategy instance.
Attempts == {"A", "B"}

\* --------------------------------------------------------------- JS values

Undefined == [t |-> "undefined"]
Null == [t |-> "null"]
Str(s) == [t |-> "string", s |-> s]
True == [t |-> "boolean", b |-> TRUE]
EmptyObject == [t |-> "object"]

\* ToBoolean: what `if (v)`, `!v` and `a || b` test.
Truthy(v) ==
  CASE v.t \in {"undefined", "null"} -> FALSE
    [] v.t = "string" -> v.s # ""
    [] v.t = "boolean" -> v.b
    [] v.t = "number" -> v.n # 0
    [] OTHER -> TRUE

\* a || b
Or(a, b) == IF Truthy(a) THEN a ELSE b

\* new Error(message, ...): only the first argument makes the message, and an
\* undefined message gives the empty string.
NewError(message) ==
  [t |-> "Error", message |-> IF message = Undefined THEN Str("") ELSE message]

\* A query object; a parameter that is absent reads as undefined.
Query(error, error_description, code) ==
  [t |-> "object", error |-> error, error_description |-> error_description,
   error_uri |-> Undefined, code |-> code]

Request(query) == [t |-> "request", query |-> query]

\* An options object of authenticate(); an absent option reads as undefined.
Options(scope, accessType, access_type) ==
  [t |-> "object", scope |-> scope, accessType |-> accessType,
   access_type |-> access_type]

EmptyOptions == Options(Undefined, Undefined, Undefined)

\* A token set / the client's credentials; an absent token reads as undefined.
Tokens(access_token, refresh_token) ==
  [t |-> "object", access_token |-> access_token, refresh_token |-> refresh_token]

\* --------------------------------------------------- inputs of the attempts

Requests ==
  { Request(Undefined),
    Request(Query(Undefined, Undefined, Undefined)),
    Request(Query(Str(""), Undefined, Str(""))),
    Request(Query(Str("access_denied"), Str("user said no"), Undefined)),
    Request(Query(Str("access_denied"), Undefined, Str("abc123"))),
    Request(Query(Str("server_error"), Str("boom"), Str("abc123"))),
    Request(Query(Str("invalid_scope"), Undefined, Undefined)),
    Request(Query(Undefined, Undefined, Str("abc123"))),
    Request(Query(Str(""), Str("ignored"), Str("xyz789"))) }

CallOptions ==
  { Undefined,
    Options(Undefined, Undefined, Undefined),
    Options(Str("a b"), Str("offline"), Undefined),
    Options(Undefined, Undefined, Str("online")),
    Options(Str(""), Str("offline"), Str("online")) }

\* The access token the provider issues to an attempt's code exchange.
AccessTokenOf(a) == IF a = "A" THEN Str("AT1") ELSE Str("AT2")

\* What a successful exchange returns: the provider gives no refresh token for
\* the code abc123 and one for any other code.
TokenSets(a, code) ==
  { Tokens(AccessTokenOf(a), IF code = Str("abc123") THEN Undefined ELSE Str("RT1")) }

\* Failures of getToken: a plain error, and HTTP failures with a body.
HttpError(statusCode, data) ==
  [t |-> "Error", message |-> Str("http"), statusCode |-> statusCode, data |-> data]

TokenErrors ==
  { NewError(Str("socket hang up")),
    HttpError([t |-> "number", n |-> 400],
              Str("{\"error\":\"invalid_grant\",\"error_description\":\"bad code\"}")),
    HttpError([t |-> "number", n |-> 500], Str("<html>")),
    HttpError([t |-> "number", n |-> 400], Str("{}")),
    HttpError([t |-> "number", n |-> 400], Str("null")),
    HttpError([t |-> "number", n |-> 400], Str("{\"error\":\"invalid_grant\"}")),
    HttpError([t |-> "number", n |-> 401], Undefined),
    [t |-> "Error", message |-> Str("no status"),
     data |-> Str("{\"error\":\"invalid_grant\",\"error_description\":\"bad code\"}")] }

\* Failures of userinfo.get.
ProfileErrors ==
  { NewError(Str("userinfo unavailable")),
    HttpError([t |-> "number", n |-> 401],
              Str("{\"error\":\"invalid_grant\",\"error_description\":\"bad code\"}")) }

\* The profile the provider returns for the credentials a request carries.
ProfileOf(auth) == [t |-> "profile", of |-> auth.access_token]

\* What the verify callback may pass to verified(err, user, info).
DoneArgs ==
  { [err |-> NewError(Str("db down")), user |-> Str("u1"), info |-> Undefined],
    [err |-> Null, user |-> Null, info |-> [t |-> "object", message |-> Str("no match")]],
    [err |-> Undefined, user |-> Str("u1"), info |-> [t |-> "object", message |-> Str("hi")]] }

\* What the verify callback may throw.
Thrown == { NewError(Str("verify blew up")) }

\* The declared parameter counts of the verify callbacks considered.
Arities == {4, 5, 6}

\* ------------------------------------------------------- pure functions

\* A function value with its declared parameter count.
Function(n) == [t |-> "function", length |-> n]

\* An options object of the constructor; an absent option reads as undefined.
Config(clientID, clientSecret, redirectURL, scope) ==
  [t |-> "object", clientID |-> clientID, clientSecret |-> clientSecret,
   redirectURL |-> redirectURL, scope |-> scope]

TypeError(message) == [t |-> "TypeError", message |-> Str(message)]

\* obj.k: a property the object lacks reads as undefined.
Prop(obj, k) == IF k \in DOMAIN obj THEN obj[k] ELSE Undefined

\* An object literal with the given keys; params[k] is its value.
ObjectWith(keys, val) == [k \in keys |-> val[k]]

\* Mutant: access_type is preferred to accessType.
authorizationParams_SnakeFirst(options, scope_) ==
  LET scope == Or(options.scope, scope_)
      access == Or(options.access_type, options.accessType)
      keys == {k \in {"scope"} : Truthy(scope)} \cup
              {k \in {"access_type"} : Truthy(options.accessType)
                                        \/ Truthy(options.access_type)}
  IN  ObjectWith(keys, [scope |-> scope, access_type |-> access])

\* authorizationParams(options), with this._scope passed as scope_.
authorizationParams(options, scope_) ==
  LET scope == Or(options.scope, scope_)
      access == Or(options.accessType, options.access_type)
      keys == {k \in {"scope"} : Truthy(scope)} \cup
              {k \in {"access_type"} : Truthy(options.accessType)
                                        \/ Truthy(options.access_type)}
  IN  ObjectWith(keys, [scope |-> scope, access_type |-> access])

\* oauth2Client.generateAuthUrl(params): the URL is made of the parameters.
generateAuthUrl(params) == [t |-> "url", params |-> params]

\* JSON.parse(body) on the bodies the provider sends here: the parsed value,
\* or a SyntaxError.
JSONParse(body) ==
  CASE body = Str("{\"error\":\"invalid_grant\",\"error_description\":\"bad code\"}") ->
         [threw |-> FALSE,
          value |-> [t |-> "object", error |-> Str("invalid_grant"),
                     error_description |-> Str("bad code")]]
    [] body = Str("{\"error\":\"invalid_grant\"}") ->
         [threw |-> FALSE,
          value |-> [t |-> "object", error |-> Str("invalid_grant")]]
    [] body = Str("{}") -> [threw |-> FALSE, value |-> EmptyObject]
    [] body = Str("null") -> [threw |-> FALSE, value |-> Null]
    [] OTHER -> [threw |-> TRUE, value |-> Undefined]

\* parseErrorResponse(body, status): the value returned, or threw when
\* JSON.parse throws or the parsed value has no properties to read.
parseErrorResponse(body, status) ==
  LET json == JSONParse(body)
  IN  IF json.threw \/ json.value.t \in {"null", "undefined"}
      THEN [threw |-> TRUE, value |-> Undefined]
      ELSE IF Truthy(Prop(json.value, "error"))
           THEN [threw |-> FALSE,
                 value |-> NewError(Prop(json.value, "error_description"))]
           ELSE [threw |-> FALSE, value |-> Null]

\* Mutant: the parse is not guarded, and what it throws leaves the function.
_createOAuthError_Unguarded(message, err) ==
  LET parsed == parseErrorResponse(Prop(err, "data"), Prop(err, "statusCode"))
  IN  IF Truthy(Prop(err, "statusCode")) /\ Truthy(Prop(err, "data"))
      THEN IF parsed.threw
           THEN [t |-> "uncaught", message |-> Str("SyntaxError")]
           ELSE IF Truthy(parsed.value) THEN parsed.value ELSE NewError(message)
      ELSE NewError(message)

\* _createOAuthError(message, err).
_createOAuthError(message, err) ==
  LET parsed == parseErrorResponse(Prop(err, "data"), Prop(err, "statusCode"))
      e == IF Truthy(Prop(err, "statusCode")) /\ Truthy(Prop(err, "data"))
              /\ ~parsed.threw
           THEN parsed.value
           ELSE Undefined
  IN  IF ~Truthy(e) THEN NewError(message) ELSE e

\* The three outcomes passport offers, with the source line that emits them.
Success(user, info, line) ==
  [kind |-> "success", user |-> user, info |-> info, line |-> line]
Fail(challenge, line) == [kind |-> "fail", challenge |-> challenge, line |-> line]
Error(err, line) == [kind |-> "error", err |-> err, line |-> line]
NoOutcome == [kind |-> "none"]

\* Mutant: the code parameter is looked at before the error parameter.
Branch_CodeFirst(r) ==
  IF Truthy(r.query) /\ Truthy(r.query.code) THEN "code"
  ELSE IF Truthy(r.query) /\ Truthy(r.query.error) THEN "error"
  ELSE "redirect"

\* Mutant: a parameter counts as given when it is not undefined, even if empty.
Branch_Presence(r) ==
  IF Truthy(r.query) /\ r.query.error # Undefined THEN "error"
  ELSE IF Truthy(r.query) /\ r.query.code # Undefined THEN "code"
  ELSE "redirect"

\* Which branch authenticate takes for a request.
Branch(r) ==
  IF Truthy(r.query) /\ Truthy(r.query.error) THEN "error"
  ELSE IF Truthy(r.query) /\ Truthy(r.query.code) THEN "code"
  ELSE "redirect"

\* Mutant: every provider-reported error is taken for a denial.
ProviderError_AllDenied(query) ==
  Fail([t |-> "object", message |-> query.error_description], 76)

\* The provider-reported error branch.
ProviderError(query) ==
  IF query.error = Str("access_denied")
  THEN Fail([t |-> "object", message |-> query.error_description], 76)
  ELSE Error(NewError(query.error_description), 79)

\* Mutant: the failure of the exchange is handed on as it came.
TokenFailure_Raw(err) == Error(err, 93)

\* self.error(self._createOAuthError('Failed to obtain access token', err))
TokenFailure(err) ==
  Error(_createOAuthError(Str("Failed to obtain access token"), err), 93)

\* Mutant: the failure of the fetch is normalized like that of the exchange.
ProfileFailure_Normalized(err) ==
  Error(_createOAuthError(Str("Failed to fetch user profile"), err), 108)

\* self.error(err) in the userinfo.get callback
ProfileFailure(err) == Error(err, 108)

\* Mutant: the refresh token is taken as returned, without the null default.
RefreshTokenOf_Raw(tokens) == tokens.refresh_token

\* var refreshToken = tokens.refresh_token || null
RefreshTokenOf(tokens) == Or(tokens.refresh_token, Null)

\* Mutant: the tokens are not set on the client.
setCredentials_Skipped(client, tokens) == client

\* oauth2Client.setCredentials(tokens)
setCredentials(client, tokens) == [client EXCEPT !.credentials = tokens]

\* Mutant: the user is looked at before the error.
verified_UserFirst(err, user, info) ==
  IF Truthy(user) THEN Success(user, info, 126)
  ELSE IF Truthy(err) THEN Error(err, 116)
  ELSE Fail(info, 122)

\* verified(err, user, info): the outcome it emits.
verified(err, user, info) ==
  IF Truthy(err) THEN Error(err, 116)
  ELSE IF ~Truthy(user) THEN Fail(info, 122)
  ELSE Success(user, info, 126)

\* The function handed to the verify callback as its last argument.
Verified == [t |-> "function", name |-> "verified"]

\* Mutant: both modes test for the same declared length.
VerifyArgs_SameArity(passReq, arity, r, accessToken_, refreshToken_, profile) ==
  IF Truthy(passReq)
  THEN IF arity = 6
       THEN <<r, accessToken_, refreshToken_, EmptyObject, profile, Verified>>
       ELSE <<r, accessToken_, refreshToken_, profile, Verified>>
  ELSE IF arity = 6
       THEN <<accessToken_, refreshToken_, EmptyObject, profile, Verified>>
       ELSE <<accessToken_, refreshToken_, profile, Verified>>

\* The argument list of the call of this._verify.
VerifyArgs(passReq, arity, r, accessToken_, refreshToken_, profile) ==
  IF Truthy(passReq)
  THEN IF arity = 6
       THEN <<r, accessToken_, refreshToken_, EmptyObject, profile, Verified>>
       ELSE <<r, accessToken_, refreshToken_, profile, Verified>>
  ELSE IF arity = 5
       THEN <<accessToken_, refreshToken_, EmptyObject, profile, Verified>>
       ELSE <<accessToken_, refreshToken_, profile, Verified>>

\* Mutant: the call of the verify callback is not guarded.
Caught_Rethrown(ex) == [outcome |-> NoOutcome, escaped |-> TRUE]

\* catch(ex) { return self.error(ex); }: the exception ends here.
Caught(ex) == [outcome |-> Error(ex, 150), escaped |-> FALSE]

\* Mutant: the clientID option is checked before the verify callback.
Constructor_ClientIDFirst(options, verify) ==
  LET isFn == options.t = "function"
      v == IF isFn THEN options ELSE verify
      o == Or(IF isFn THEN Undefined ELSE options, EmptyObject)
      missing ==
        IF ~Truthy(Prop(o, "clientID")) THEN "clientID option"
        ELSE IF ~Truthy(v) THEN "verify callback"
        ELSE IF ~Truthy(Prop(o, "clientSecret")) THEN "clientSecret option"
        ELSE IF ~Truthy(Prop(o, "redirectURL")) THEN "redirectURL option"
        ELSE ""
  IN  [resolved |-> o, verify |-> v,
       threw |-> IF missing = "" THEN Null
                 ELSE TypeError("GoogleAPIsStrategy requires a " \o missing)]

\* function GoogleAPIsStrategy(options, verify): the options as resolved, the
\* verify callback as resolved, and the TypeError thrown, if any.
Constructor(options, verify) ==
  LET isFn == options.t = "function"
      v == IF isFn THEN options ELSE verify
      o == Or(IF isFn THEN Undefined ELSE options, EmptyObject)
      missing ==
        IF ~Truthy(v) THEN "verify callback"
        ELSE IF ~Truthy(Prop(o, "clientID")) THEN "clientID option"
        ELSE IF ~Truthy(Prop(o, "clientSecret")) THEN "clientSecret option"
        ELSE IF ~Truthy(Prop(o, "redirectURL")) THEN "redirectURL option"
        ELSE ""
  IN  [resolved |-> o, verify |-> v,
       threw |-> IF missing = "" THEN Null
                 ELSE TypeError("GoogleAPIsStrategy requires a " \o missing)]

\* The record of a call of the constructor.
Constructed(options, verify) ==
  LET r == Constructor(options, verify)
  IN  [state |-> IF Truthy(r.threw) THEN "threw" ELSE "done",
       options |-> options, verify |-> verify,
       resolved |-> r.resolved, threw |-> r.threw]

NotConstructed == [state |-> "none"]

\* The arguments the constructor is called with.
ConstructorOptions ==
  { Undefined,
    Function(4),
    Config(Str("id"), Str("secret"), Str("https://app/cb"), Undefined),
    Config(Str("id"), Str("secret"), Str("https://app/cb"), Str("profile email")),
    Config(Undefined, Str("secret"), Str("https://app/cb"), Undefined),
    Config(Str(""), Undefined, Undefined, Undefined),
    Config(Str("id"), Undefined, Undefined, Undefined),
    Config(Str("id"), Str("secret"), Undefined, Str("profile email")) }

ConstructorVerifies == { Undefined, Function(4), Function(5) }

\* ------------------------------------------------------------------ state

VARIABLES
  construction,        \* the call of the constructor: its arguments and its result
  name,                \* this.name
  _verify,             \* this._verify: the verify callback (its declared length)
  _passReqToCallback,  \* this._passReqToCallback, read at the dispatch
  _scope,              \* this._scope, read by authorizationParams
  oauth2Client,        \* this.oauth2Client: the one client, with its credentials
  pc,                  \* per attempt: where its chain of callbacks stands
  req,                 \* per attempt: the request authenticate was called with
  accessToken,         \* per attempt: var accessToken of the getToken callback
  refreshToken,        \* per attempt: var refreshToken of the getToken callback
  calls,               \* per attempt: the calls to the collaborators and their
                       \* callbacks, in order
  nOut,                \* per attempt: how many of success/fail/error were called
  out,                 \* per attempt: the last of them
  nDone,               \* per attempt: how many times verified() was called
  lastDone,            \* per attempt: the arguments of its last call
  thrown,              \* per attempt: what the verify callback threw, if it did
  escaped              \* per attempt: an exception left the userinfo callback

strategy == <<construction, name, _verify, _passReqToCallback, _scope>>
attempt == <<pc, req, accessToken, refreshToken, calls>>
outcome == <<nOut, out>>
callback == <<nDone, lastDone, thrown, escaped>>
vars == <<strategy, oauth2Client, attempt, outcome, callback>>

NoCall == [t |-> "none"]

\* The strategy as the constructor leaves it.  _passReqToCallback and _scope
\* are not assigned by the constructor: they hold whatever the application put
\* on the instance, or undefined.
Init ==
  /\ name = "googleapis"
  /\ _verify \in {Function(n) : n \in Arities}
  /\ construction = Constructed(Config(Str("id"), Str("secret"), Str("https://app/cb"),
                                        Undefined), _verify)
  /\ _passReqToCallback \in {Undefined, True}
  /\ _scope \in {Undefined, Str("profile")}
  /\ oauth2Client = [credentials |-> EmptyObject]
  /\ pc = [a \in Attempts |-> "idle"]
  /\ req = [a \in Attempts |-> Undefined]
  /\ accessToken = [a \in Attempts |-> Undefined]
  /\ refreshToken = [a \in Attempts |-> Undefined]
  /\ calls = [a \in Attempts |-> <<>>]
  /\ nOut = [a \in Attempts |-> 0]
  /\ out = [a \in Attempts |-> NoOutcome]
  /\ nDone = [a \in Attempts |-> 0]
  /\ lastDone = [a \in Attempts |-> NoCall]
  /\ thrown = [a \in Attempts |-> NoCall]
  /\ escaped = [a \in Attempts |-> FALSE]

\* this.success / this.fail / this.error
Emit(a, o) ==
  /\ nOut' = [nOut EXCEPT ![a] = @ + 1]
  /\ out' = [out EXCEPT ![a] = o]

Call(a, cs) == calls' = [calls EXCEPT ![a] = @ \o cs]

\* ---------------------------------------------------------------- actions

\* Mutant: the provider-error branch does not return, and the code runs on
\* into the code / redirect test.
Authenticate_FallsThrough(a, r, options) ==
  /\ pc[a] = "idle"
  /\ req' = [req EXCEPT ![a] = r]
  /\ IF Branch(r) = "error"
     THEN Emit(a, ProviderError(r.query))
     ELSE UNCHANGED outcome
  /\ IF Truthy(r.query) /\ Truthy(r.query.code)
     THEN /\ Call(a, << [ev |-> "getToken", code |-> r.query.code] >>)
          /\ pc' = [pc EXCEPT ![a] = "getToken"]
     ELSE LET opts == Or(options, EmptyOptions)
              params == authorizationParams(opts, _scope)
              location == generateAuthUrl(params)
          IN  /\ Call(a, << [ev |-> "authorizationParams", options |-> opts],
                            [ev |-> "redirect", location |-> location] >>)
              /\ pc' = [pc EXCEPT ![a] = "end"]
  /\ UNCHANGED <<strategy, oauth2Client, accessToken, refreshToken, callback>>

\* authenticate(req, options): the synchronous part.
Authenticate(a, r, options) ==
  /\ pc[a] = "idle"
  /\ req' = [req EXCEPT ![a] = r]
  /\ CASE Branch(r) = "error" ->
            /\ Emit(a, ProviderError(r.query))
            /\ pc' = [pc EXCEPT ![a] = "end"]
            /\ UNCHANGED calls
       [] Branch(r) = "code" ->
            /\ Call(a, << [ev |-> "getToken", code |-> r.query.code] >>)
            /\ pc' = [pc EXCEPT ![a] = "getToken"]
            /\ UNCHANGED outcome
       [] OTHER ->
            LET opts == Or(options, EmptyOptions)
                params == authorizationParams(opts, _scope)
                location == generateAuthUrl(params)
            IN  /\ Call(a, << [ev |-> "authorizationParams", options |-> opts],
                              [ev |-> "redirect", location |-> location] >>)
                /\ pc' = [pc EXCEPT ![a] = "end"]
                /\ UNCHANGED outcome
  /\ UNCHANGED <<strategy, oauth2Client, accessToken, refreshToken, callback>>

\* Mutant: the credentials are set on the client before the error is looked
\* at, so a failed exchange sets the undefined tokens it came with.
GetTokenFailed_CredentialsFirst(a, err) ==
  /\ pc[a] = "getToken"
  /\ oauth2Client' = setCredentials(oauth2Client, Undefined)
  /\ Call(a, << [ev |-> "getToken.callback", err |-> err, tokens |-> Undefined] >>)
  /\ Emit(a, TokenFailure(err))
  /\ pc' = [pc EXCEPT ![a] = "end"]
  /\ UNCHANGED <<strategy, req, accessToken, refreshToken, callback>>

\* Mutant: the failure of the exchange is swallowed: the callback returns
\* without calling self.error.
GetTokenFailed_Swallowed(a, err) ==
  /\ pc[a] = "getToken"
  /\ Call(a, << [ev |-> "getToken.callback", err |-> err, tokens |-> Undefined] >>)
  /\ pc' = [pc EXCEPT ![a] = "end"]
  /\ UNCHANGED <<strategy, oauth2Client, req, accessToken, refreshToken,
                 outcome, callback>>

\* The getToken callback, called with an error.
GetTokenFailed(a, err) ==
  /\ pc[a] = "getToken"
  /\ Call(a, << [ev |-> "getToken.callback", err |-> err, tokens |-> Undefined] >>)
  /\ Emit(a, TokenFailure(err))
  /\ pc' = [pc EXCEPT ![a] = "end"]
  /\ UNCHANGED <<strategy, oauth2Client, req, accessToken, refreshToken, callback>>

\* Mutant: userinfo.get is called before the credentials are set on the client.
GetTokenSucceeded_FetchFirst(a, tokens) ==
  /\ pc[a] = "getToken"
  /\ accessToken' = [accessToken EXCEPT ![a] = tokens.access_token]
  /\ refreshToken' = [refreshToken EXCEPT ![a] = RefreshTokenOf(tokens)]
  /\ oauth2Client' = setCredentials(oauth2Client, tokens)
  /\ Call(a, << [ev |-> "getToken.callback", err |-> Null, tokens |-> tokens],
                [ev |-> "userinfo.get", auth |-> oauth2Client.credentials],
                [ev |-> "setCredentials", tokens |-> tokens] >>)
  /\ pc' = [pc EXCEPT ![a] = "userinfo"]
  /\ UNCHANGED <<strategy, req, outcome, callback>>

\* The getToken callback, called with tokens: the credentials are set on the
\* client and userinfo.get is called with that client, whose credentials the
\* request it sends carries.
GetTokenSucceeded(a, tokens) ==
  /\ pc[a] = "getToken"
  /\ accessToken' = [accessToken EXCEPT ![a] = tokens.access_token]
  /\ refreshToken' = [refreshToken EXCEPT ![a] = RefreshTokenOf(tokens)]
  /\ oauth2Client' = setCredentials(oauth2Client, tokens)
  /\ Call(a, << [ev |-> "getToken.callback", err |-> Null, tokens |-> tokens],
                [ev |-> "setCredentials", tokens |-> tokens],
                [ev |-> "userinfo.get", auth |-> oauth2Client'.credentials] >>)
  /\ pc' = [pc EXCEPT ![a] = "userinfo"]
  /\ UNCHANGED <<strategy, req, outcome, callback>>

\* What the pending exchange of an attempt can return.
Issued(a) == IF pc[a] = "getToken" THEN TokenSets(a, req[a].query.code) ELSE {}

\* The credentials the attempt's userinfo request was sent with.
AuthOf(a) == calls[a][Len(calls[a])].auth

\* The userinfo.get callback, called with an error.
UserinfoFailed(a, err) ==
  /\ pc[a] = "userinfo"
  /\ Call(a, << [ev |-> "userinfo.get.callback", err |-> err, profile |-> Undefined] >>)
  /\ Emit(a, ProfileFailure(err))
  /\ pc' = [pc EXCEPT ![a] = "end"]
  /\ UNCHANGED <<strategy, oauth2Client, req, accessToken, refreshToken, callback>>

\* The userinfo.get callback, called with the profile: this._verify is called.
UserinfoSucceeded(a, profile) ==
  /\ pc[a] = "userinfo"
  /\ Call(a, << [ev |-> "userinfo.get.callback", err |-> Null, profile |-> profile],
                [ev |-> "verify",
                 args |-> VerifyArgs(_passReqToCallback, _verify.length, req[a],
                                     accessToken[a], refreshToken[a], profile)] >>)
  /\ pc' = [pc EXCEPT ![a] = "verify"]
  /\ UNCHANGED <<strategy, oauth2Client, req, accessToken, refreshToken, outcome, callback>>

\* What the pending userinfo request of an attempt can return.
Fetched(a) == IF pc[a] = "userinfo" THEN {ProfileOf(AuthOf(a))} ELSE {}

\* The verify callback calls verified(err, user, info), during its call or later.
VerifiedCalled(a, d) ==
  /\ pc[a] = "verify"
  /\ nDone[a] < MaxDone
  /\ Emit(a, verified(d.err, d.user, d.info))
  /\ nDone' = [nDone EXCEPT ![a] = @ + 1]
  /\ lastDone' = [lastDone EXCEPT ![a] = d]
  /\ UNCHANGED <<strategy, oauth2Client, attempt, thrown, escaped>>

\* The verify callback throws (having called verified() or not).
VerifyThrew(a, ex) ==
  /\ pc[a] = "verify"
  /\ thrown[a] = NoCall
  /\ thrown' = [thrown EXCEPT ![a] = ex]
  /\ IF Caught(ex).escaped
     THEN escaped' = [escaped EXCEPT ![a] = TRUE] /\ UNCHANGED outcome
     ELSE Emit(a, Caught(ex).outcome) /\ UNCHANGED escaped
  /\ UNCHANGED <<strategy, oauth2Client, attempt, nDone, lastDone>>

\* new GoogleAPIsStrategy(options, verify)
Construct(options, verify) ==
  /\ construction = NotConstructed
  /\ construction' = Constructed(options, verify)
  /\ IF construction'.state = "done"
     THEN /\ name' = "googleapis"
          /\ _verify' = Constructor(options, verify).verify
          /\ oauth2Client' = [credentials |-> EmptyObject]
     ELSE UNCHANGED <<name, _verify, oauth2Client>>
  /\ UNCHANGED <<_passReqToCallback, _scope, attempt, outcome, callback>>

Next ==
  \E a \in Attempts :
    \/ \E r \in Requests, options \in CallOptions : Authenticate(a, r, options)
    \/ \E err \in TokenErrors : GetTokenFailed(a, err)
    \/ \E tokens \in Issued(a) : GetTokenSucceeded(a, tokens)
    \/ \E err \in ProfileErrors : UserinfoFailed(a, err)
    \/ \E profile \in Fetched(a) : UserinfoSucceeded(a, profile)
    \/ \E d \in DoneArgs : VerifiedCalled(a, d)
    \/ \E ex \in Thrown : VerifyThrew(a, ex)

Spec == Init /\ [][Next]_vars

\* The collaborators of an attempt answer: getToken calls its callback,
\* userinfo.get calls its callback, and the verify callback calls done, or
\* throws, a first time.
TokenCallback(a) ==
  \/ \E err \in TokenErrors : GetTokenFailed(a, err)
  \/ \E tokens \in Issued(a) : GetTokenSucceeded(a, tokens)

ProfileCallback(a) ==
  \/ \E err \in ProfileErrors : UserinfoFailed(a, err)
  \/ \E profile \in Fetched(a) : UserinfoSucceeded(a, profile)

VerifyResolves(a) ==
  /\ nDone[a] = 0 /\ thrown[a] = NoCall
  /\ \/ \E d \in DoneArgs : VerifiedCalled(a, d)
     \/ \E ex \in Thrown : VerifyThrew(a, ex)

Responsive ==
  \A a \in Attempts :
    /\ WF_vars(TokenCallback(a))
    /\ WF_vars(ProfileCallback(a))
    /\ WF_vars(VerifyResolves(a))

\* The strategy with collaborators that answer every call.
SpecLive == Init /\ [][Next]_vars /\ Responsive

\* Before the constructor is called: nothing is set on the instance.
InitConstruct ==
  /\ construction = NotConstructed
  /\ name = ""
  /\ _verify = Undefined
  /\ _passReqToCallback = Undefined
  /\ _scope = Undefined
  /\ oauth2Client = Undefined
  /\ pc = [a \in Attempts |-> "idle"]
  /\ req = [a \in Attempts |-> Undefined]
  /\ accessToken = [a \in Attempts |-> Undefined]
  /\ refreshToken = [a \in Attempts |-> Undefined]
  /\ calls = [a \in Attempts |-> <<>>]
  /\ nOut = [a \in Attempts |-> 0]
  /\ out = [a \in Attempts |-> NoOutcome]
  /\ nDone = [a \in Attempts |-> 0]
  /\ lastDone = [a \in Attempts |-> NoCall]
  /\ thrown = [a \in Attempts |-> NoCall]
  /\ escaped = [a \in Attempts |-> FALSE]

\* The constructor is called once; authenticate runs on the strategy it made.
NextConstruct ==
  \/ \E options \in ConstructorOptions, verify \in ConstructorVerifies :
       Construct(options, verify)
  \/ construction.state = "done" /\ Next

SpecConstruct == InitConstruct /\ [][NextConstruct]_vars

\* ------------------------------------------------------------ properties

\* The attempt made a call (or got a callback) of the kind e.
Has(a, e) == \E i \in DOMAIN calls[a] : calls[a][i].ev = e

\* That call.
The(a, e) == calls[a][CHOOSE i \in DOMAIN calls[a] : calls[a][i].ev = e]

\* The arguments of a verify call, by position: the request comes first in
\* passthrough mode; done is last and the profile comes before it.
ArgAccessToken(args) == args[IF Truthy(_passReqToCallback) THEN 2 ELSE 1]
ArgRefreshToken(args) == args[IF Truthy(_passReqToCallback) THEN 3 ELSE 2]
ArgProfile(args) == args[Len(args) - 1]

\* The query of the attempt's request has a non-empty parameter k.
Given(a, k) == pc[a] # "idle" /\ Truthy(req[a].query) /\ Truthy(req[a].query[k])

\* C1 as claimed, read in the claim's favour where a redirect is concerned (a
\* redirected attempt is not held to have produced an outcome): no attempt
\* ever has more than one of success/fail/error emitted, and an attempt that
\* ended outside the redirect branch, or whose verify callback called done or
\* threw, has exactly one.
C1_ExactlyOneOutcome ==
  \A a \in Attempts :
    /\ nOut[a] <= 1
    /\ (  \/ pc[a] = "end" /\ ~Has(a, "redirect")
          \/ nDone[a] > 0
          \/ thrown[a] # NoCall ) => nOut[a] = 1

\* C2: the userinfo request of an attempt carries the credentials that the
\* attempt's own token exchange returned, and its verify callback receives
\* that exchange's access token together with the profile of that very token,
\* however the callbacks of the two attempts interleave.
C2_OwnCredentials ==
  \A a \in Attempts :
    /\ Has(a, "userinfo.get") =>
         The(a, "userinfo.get").auth = The(a, "getToken.callback").tokens
    /\ Has(a, "verify") =>
         LET args == The(a, "verify").args
             tokens == The(a, "getToken.callback").tokens
         IN  /\ ArgAccessToken(args) = tokens.access_token
             /\ ArgAccessToken(args) = AccessTokenOf(a)
             /\ ArgProfile(args) = ProfileOf(tokens)
             /\ ArgProfile(args).of = ArgAccessToken(args)

\* C2's case: both userinfo requests are in flight, A's was sent with A's
\* tokens, and the shared client has since been given B's.
C2_Witness ==
  /\ pc["A"] = "userinfo" /\ pc["B"] = "userinfo"
  /\ The("A", "userinfo.get").auth.access_token = AccessTokenOf("A")
  /\ oauth2Client.credentials.access_token = AccessTokenOf("B")

\* C3: a request whose error parameter is access_denied, with or without a
\* code, gets fail exactly once, with the challenge {message:
\* error_description}; nothing else is emitted, no redirect is made and no
\* token exchange is started.
C3_AccessDenied ==
  \A a \in Attempts :
    (Given(a, "error") /\ req[a].query.error = Str("access_denied")) =>
      /\ nOut[a] = 1
      /\ out[a].kind = "fail"
      /\ out[a].challenge = [t |-> "object", message |-> req[a].query.error_description]
      /\ calls[a] = <<>>
      /\ pc[a] = "end"

\* C3's case: a denial that also carries a code has been failed.
C3_Witness ==
  \E a \in Attempts :
    /\ Given(a, "code") /\ Given(a, "error")
    /\ req[a].query.error = Str("access_denied")
    /\ out[a].kind = "fail"

\* C4: a request whose error parameter is set (present and not empty, which is
\* what the code tests) to anything but access_denied gets error exactly once,
\* with an Error made from error_description; nothing else is emitted, no
\* redirect is made and no token exchange is started.
C4_OtherProviderError ==
  \A a \in Attempts :
    (Given(a, "error") /\ req[a].query.error # Str("access_denied")) =>
      /\ nOut[a] = 1
      /\ out[a].kind = "error"
      /\ out[a].err = NewError(req[a].query.error_description)
      /\ calls[a] = <<>>
      /\ pc[a] = "end"

\* C4's case: an error other than a denial, with a description and a code,
\* has been reported.
C4_Witness ==
  \E a \in Attempts :
    /\ Given(a, "code") /\ Given(a, "error")
    /\ req[a].query.error = Str("server_error")
    /\ out[a].kind = "error"
    /\ out[a].err.message = Str("boom")

\* C5: a request with neither a code nor an error (no query at all, or both
\* parameters absent or empty) gets exactly one redirect, to the URL the client
\* generates from authorizationParams(options), and nothing else: no outcome,
\* no token exchange, no profile fetch.
C5_Redirect ==
  \A a \in Attempts :
    (pc[a] # "idle" /\ ~Given(a, "error") /\ ~Given(a, "code")) =>
      /\ nOut[a] = 0
      /\ pc[a] = "end"
      /\ Len(calls[a]) = 2
      /\ calls[a][1].ev = "authorizationParams"
      /\ calls[a][2] =
           [ev |-> "redirect",
            location |-> generateAuthUrl(
                           authorizationParams(calls[a][1].options, _scope))]

\* C5's case: a request without any query has been redirected, with the
\* scope and access type of the call's options in the URL.
C5_Witness ==
  \E a \in Attempts :
    /\ pc[a] = "end"
    /\ req[a] = Request(Undefined)
    /\ Has(a, "redirect")
    /\ The(a, "redirect").location.params
         = [scope |-> Str("a b"), access_type |-> Str("offline")]

\* C6: when the token exchange of a request with a code fails, error is
\* emitted exactly once, with what _createOAuthError makes of the failure;
\* nothing follows the failed exchange: no credentials are set on the client,
\* no profile is fetched and the verify callback is not called.
C6_TokenExchangeFailed ==
  \A a \in Attempts :
    (Has(a, "getToken.callback") /\ Truthy(The(a, "getToken.callback").err)) =>
      /\ Given(a, "code")
      /\ nOut[a] = 1
      /\ out[a].kind = "error"
      /\ out[a].err = _createOAuthError(Str("Failed to obtain access token"),
                                        The(a, "getToken.callback").err)
      /\ calls[a] = << [ev |-> "getToken", code |-> req[a].query.code],
                       The(a, "getToken.callback") >>
      /\ Prop(oauth2Client.credentials, "access_token") # AccessTokenOf(a)
      /\ nDone[a] = 0 /\ thrown[a] = NoCall
      /\ pc[a] = "end"

\* C6's case: the exchange failed with a 400 whose body names the error, and
\* the attempt ended in the error made from that body.
C6_Witness ==
  \E a \in Attempts :
    /\ Has(a, "getToken.callback")
    /\ Prop(The(a, "getToken.callback").err, "statusCode") = [t |-> "number", n |-> 400]
    /\ out[a].kind = "error"
    /\ out[a].err.message = Str("bad code")

\* The last of the attempt's outcomes was emitted by verified().
ByVerified(a) == out[a].kind # "none" /\ out[a].line \in {116, 122, 126}

\* The outcome that a call done(err, user, info) produces is error(err) when
\* err is given, whatever user is; else fail(info) when no user is given; else
\* success(user, info).
DoneMapping ==
  \A a \in Attempts :
    (lastDone[a] # NoCall /\ ByVerified(a)) =>
      LET d == lastDone[a]
      IN  IF Truthy(d.err)
          THEN out[a].kind = "error" /\ out[a].err = d.err
          ELSE IF ~Truthy(d.user)
               THEN out[a].kind = "fail" /\ out[a].challenge = d.info
               ELSE /\ out[a].kind = "success"
                    /\ out[a].user = d.user
                    /\ out[a].info = d.info

\* Every call of done emits an outcome: the outcomes of an attempt whose
\* verify callback was called are those of its calls of done and of its throw.
EveryDoneEmits ==
  \A a \in Attempts :
    Has(a, "verify") => nOut[a] = nDone[a] + (IF thrown[a] = NoCall THEN 0 ELSE 1)

\* C7: every call done(err, user, info) resolves the attempt by the mapping
\* err -> error(err), else no user -> fail(info), else success(user, info),
\* and emits exactly that one outcome.
C7_VerifiedResolves == DoneMapping /\ EveryDoneEmits

\* C7's case: done(null, null, {message: "no match"}) has failed the attempt
\* with that info.
C7_Witness ==
  \E a \in Attempts :
    /\ lastDone[a] # NoCall
    /\ lastDone[a].user = Null
    /\ nOut[a] = 1
    /\ out[a].kind = "fail"
    /\ out[a].challenge = [t |-> "object", message |-> Str("no match")]

\* C8: the verify callback receives the access token the exchange returned,
\* the refresh token it returned or else null (never undefined), and the
\* profile the fetch returned; the fetch was made with the client after the
\* exchanged tokens were set on it.
C8_VerifyReceives ==
  \A a \in Attempts :
    Has(a, "verify") =>
      LET args == The(a, "verify").args
          tokens == The(a, "getToken.callback").tokens
      IN  /\ ArgAccessToken(args) = tokens.access_token
          /\ ArgRefreshToken(args) =
               (IF tokens.refresh_token = Undefined THEN Null ELSE tokens.refresh_token)
          /\ ArgRefreshToken(args) # Undefined
          /\ ArgProfile(args) = The(a, "userinfo.get.callback").profile
          /\ The(a, "setCredentials").tokens = tokens
          /\ The(a, "userinfo.get").auth = tokens
          /\ \E i \in DOMAIN calls[a] :
               /\ calls[a][i].ev = "setCredentials"
               /\ calls[a][i + 1].ev = "userinfo.get"

\* C8's case: code abc123 was exchanged for AT1 without a refresh token, and
\* the verify callback was called with (AT1, null, profile, done).
C8_Witness ==
  /\ Has("A", "verify")
  /\ req["A"].query.code = Str("abc123")
  /\ The("A", "getToken.callback").tokens = Tokens(Str("AT1"), Undefined)
  /\ The("A", "verify").args
       = << Str("AT1"), Null, The("A", "userinfo.get.callback").profile, Verified >>

\* C9: the argument list of the verify call is fixed by the passthrough mode
\* and the declared length of the verify callback, and done comes last.
C9_Dispatch ==
  \A a \in Attempts :
    Has(a, "verify") =>
      LET args == The(a, "verify").args
          profile == The(a, "userinfo.get.callback").profile
      IN  /\ args[Len(args)] = Verified
          /\ IF ~Truthy(_passReqToCallback)
             THEN IF _verify.length = 5
                  THEN args = << accessToken[a], refreshToken[a], EmptyObject,
                                 profile, Verified >>
                  ELSE args = << accessToken[a], refreshToken[a], profile, Verified >>
             ELSE IF _verify.length = 6
                  THEN args = << req[a], accessToken[a], refreshToken[a], EmptyObject,
                                 profile, Verified >>
                  ELSE args = << req[a], accessToken[a], refreshToken[a], profile,
                                 Verified >>

\* C9's case: a verify callback of five parameters, called without the
\* request, got the empty object in third place.
C9_Witness ==
  \E a \in Attempts :
    /\ ~Truthy(_passReqToCallback)
    /\ _verify.length = 5
    /\ Has(a, "verify")
    /\ Len(The(a, "verify").args) = 5
    /\ The(a, "verify").args[3] = EmptyObject

\* C10: what the verify callback throws does not leave the userinfo callback
\* and is emitted as an error outcome carrying the thrown value.
C10_ThrowSurfaces ==
  \A a \in Attempts :
    thrown[a] # NoCall =>
      /\ ~escaped[a]
      /\ nOut[a] = nDone[a] + 1
      /\ (~ByVerified(a) => out[a].kind = "error" /\ out[a].err = thrown[a])

\* C10's case: the verify callback threw without calling done, and the
\* attempt has the one error outcome.
C10_Witness ==
  \E a \in Attempts :
    /\ thrown[a] # NoCall
    /\ nDone[a] = 0
    /\ nOut[a] = 1
    /\ out[a].kind = "error"
    /\ out[a].err = thrown[a]

\* What the constructor's arguments resolve to: the verify callback is the
\* first argument when that is a function, and the config is then empty.
GivenVerify == IF construction.options.t = "function" THEN construction.options
               ELSE construction.verify
GivenConfig == IF construction.options.t = "function" \/ ~Truthy(construction.options)
               THEN EmptyObject
               ELSE construction.options

\* The first thing the constructor misses, in the order it looks; "" if nothing.
FirstMissing ==
  IF ~Truthy(GivenVerify) THEN "verify callback"
  ELSE IF ~Truthy(Prop(GivenConfig, "clientID")) THEN "clientID option"
  ELSE IF ~Truthy(Prop(GivenConfig, "clientSecret")) THEN "clientSecret option"
  ELSE IF ~Truthy(Prop(GivenConfig, "redirectURL")) THEN "redirectURL option"
  ELSE ""

\* C11: the constructor succeeds exactly when a verify callback, clientID,
\* clientSecret and redirectURL are all given, and then sets the name, the
\* verify callback and the client; otherwise it throws a TypeError naming the
\* first thing missing in the order verify callback, clientID, clientSecret,
\* redirectURL, and sets nothing.  A verify callback given alone resolves the
\* config to the empty object.
C11_Construction ==
  construction.state # "none" =>
    /\ construction.resolved = GivenConfig
    /\ (construction.options.t = "function" => construction.resolved = EmptyObject)
    /\ IF FirstMissing = ""
       THEN /\ construction.state = "done"
            /\ construction.threw = Null
            /\ name = "googleapis"
            /\ _verify = GivenVerify
            /\ oauth2Client # Undefined
       ELSE /\ construction.state = "threw"
            /\ construction.threw =
                 [t |-> "TypeError",
                  message |-> Str("GoogleAPIsStrategy requires a " \o FirstMissing)]
            /\ name = ""
            /\ _verify = Undefined
            /\ oauth2Client = Undefined

\* C11's case: the constructor was called without a verify callback and
\* without a clientID, and threw for the verify callback.
C11_Witness ==
  /\ construction.state = "threw"
  /\ construction.verify = Undefined
  /\ construction.options = Config(Str(""), Undefined, Undefined, Undefined)
  /\ construction.threw.message = Str("GoogleAPIsStrategy requires a verify callback")
  /\ name = ""

\* C12 as claimed: when the strategy was constructed with a scope in its
\* config, a redirect made for a call without a scope carries the
\* construction-time scope, and a call-time scope takes its place.
C12_ConstructionScope ==
  \A a \in Attempts :
    ( /\ construction.state = "done"
      /\ Truthy(Prop(construction.resolved, "scope"))
      /\ Has(a, "redirect") ) =>
      LET opts == The(a, "authorizationParams").options
          params == The(a, "redirect").location.params
      IN  /\ "scope" \in DOMAIN params
          /\ params.scope = IF Truthy(opts.scope) THEN opts.scope
                            ELSE construction.resolved.scope

\* C13: authorizationParams(options) has no key but scope and access_type;
\* scope is there exactly when a scope is given (call-time, else this._scope),
\* access_type exactly when accessType or access_type is given, accessType
\* winning; {scope: "a b", accessType: "offline"} gives exactly that scope and
\* access_type "offline", and empty options without a default give {}.
C13_AuthorizationParams ==
  \A a \in Attempts :
    Has(a, "redirect") =>
      LET o == The(a, "authorizationParams").options
          params == The(a, "redirect").location.params
          hasScope == Truthy(o.scope) \/ Truthy(_scope)
          hasAccess == Truthy(o.accessType) \/ Truthy(o.access_type)
      IN  /\ DOMAIN params \subseteq {"scope", "access_type"}
          /\ ("scope" \in DOMAIN params) = hasScope
          /\ ("access_type" \in DOMAIN params) = hasAccess
          /\ hasScope => params.scope = (IF Truthy(o.scope) THEN o.scope ELSE _scope)
          /\ hasAccess => params.access_type =
                            (IF Truthy(o.accessType) THEN o.accessType
                             ELSE o.access_type)
          /\ (o = Options(Str("a b"), Str("offline"), Undefined) =>
                params = [scope |-> Str("a b"), access_type |-> Str("offline")])
          /\ (o = EmptyOptions /\ _scope = Undefined => params = <<>>)

\* C13's case: options with an empty scope and both spellings of the access
\* type, on a strategy with a default scope: the default scope and accessType
\* are in the parameters.
C13_Witness ==
  \E a \in Attempts :
    /\ Has(a, "redirect")
    /\ The(a, "authorizationParams").options
         = Options(Str(""), Str("offline"), Str("online"))
    /\ The(a, "redirect").location.params
         = [scope |-> Str("profile"), access_type |-> Str("offline")]

\* The body of a failure names an error: the status code and the data are
\* there and the data is JSON text of an object with an error field.
NamesError(err) ==
  /\ Truthy(Prop(err, "statusCode"))
  /\ Prop(err, "data") \in
       { Str("{\"error\":\"invalid_grant\",\"error_description\":\"bad code\"}"),
         Str("{\"error\":\"invalid_grant\"}") }

\* C14: whatever failure the exchange reports, _createOAuthError returns an
\* error value and nothing is thrown: for a failure with a status code and
\* JSON data with an error field the message is the payload's
\* error_description ("bad code" for the 400 invalid_grant payload, empty when
\* the payload has none); in every other case (no status code, no data, data
\* that does not parse, a payload that is null or has no error field) the
\* message is the one provided; and two attempts with the same failure get
\* the same error.
C14_ErrorNormalization ==
  \A a \in Attempts :
    (Has(a, "getToken.callback") /\ Truthy(The(a, "getToken.callback").err)) =>
      LET err == The(a, "getToken.callback").err
      IN  /\ out[a].kind = "error"
          /\ out[a].err.t = "Error"
          /\ DOMAIN out[a].err = {"t", "message"}
          /\ out[a].err.message =
                IF NamesError(err)
                THEN IF err.data = Str("{\"error\":\"invalid_grant\"}")
                     THEN Str("")
                     ELSE Str("bad code")
                ELSE Str("Failed to obtain access token")
          /\ \A b \in Attempts :
                ( /\ Has(b, "getToken.callback")
                  /\ The(b, "getToken.callback").err = err ) =>
                  out[b] = out[a]

\* C14's case: one exchange failed with a body that parses to null, whose
\* error field cannot be read, and ended in the generic error; the other
\* failed with the invalid_grant payload and ended in "bad code".
C14_Witness ==
  \E a, b \in Attempts :
    /\ Has(a, "getToken.callback") /\ Has(b, "getToken.callback")
    /\ Prop(The(a, "getToken.callback").err, "data") = Str("null")
    /\ out[a].err = NewError(Str("Failed to obtain access token"))
    /\ The(b, "getToken.callback").err
         = HttpError([t |-> "number", n |-> 400],
                     Str("{\"error\":\"invalid_grant\",\"error_description\":\"bad code\"}"))
    /\ out[b].err = NewError(Str("bad code"))

\* C15: the branches exclude each other, in the order provider error, code,
\* redirect.  A request with an error parameter is handled by the error
\* branch alone, whether or not it has a code: one fail or error, and no
\* getToken, no profile fetch, no verify call and no redirect.  Without an
\* error parameter a code starts the exchange and nothing redirects; without
\* either there is the redirect and no outcome.  No attempt has both a
\* redirect and an outcome.
C15_Branches ==
  \A a \in Attempts :
    /\ Given(a, "error") =>
         /\ calls[a] = <<>>
         /\ nOut[a] = 1
         /\ out[a].line \in {76, 79}
         /\ nDone[a] = 0 /\ thrown[a] = NoCall
         /\ pc[a] = "end"
    /\ (pc[a] # "idle" /\ ~Given(a, "error") /\ Given(a, "code")) =>
         /\ calls[a][1] = [ev |-> "getToken", code |-> req[a].query.code]
         /\ ~Has(a, "redirect") /\ ~Has(a, "authorizationParams")
         /\ out[a].kind # "none" => out[a].line \notin {76, 79}
    /\ (pc[a] # "idle" /\ ~Given(a, "error") /\ ~Given(a, "code")) =>
         /\ Len(calls[a]) = 2
         /\ calls[a][1].ev = "authorizationParams" /\ calls[a][2].ev = "redirect"
         /\ nOut[a] = 0
         /\ pc[a] = "end"
    /\ ~(Has(a, "redirect") /\ nOut[a] > 0)

\* C15's case: a request with both error and code ended in the error
\* branch's error, with no call made.
C15_Witness ==
  \E a \in Attempts :
    /\ req[a] = Request(Query(Str("server_error"), Str("boom"), Str("abc123")))
    /\ calls[a] = <<>>
    /\ nOut[a] = 1
    /\ out[a] = Error(NewError(Str("boom")), 79)

\* Event i of the attempt comes after an event of the kind e.
After(a, i, e) == \E j \in 1..(i - 1) : calls[a][j].ev = e

\* The order of the calls of an attempt: whatever follows was started by the
\* token exchange; credentials are set only after a getToken callback
\* without error, and are the tokens it gave; userinfo.get is called only
\* after the credentials were set; verify is called only after a userinfo.get
\* callback without error, and at most once.
CallsOrdered(a) ==
  LET c == calls[a]
  IN  /\ \A i \in DOMAIN c :
            /\ c[i].ev \in {"getToken.callback", "setCredentials", "userinfo.get",
                            "userinfo.get.callback", "verify"} =>
                 (i > 1 /\ c[1].ev = "getToken")
            /\ c[i].ev = "setCredentials" =>
                 \E j \in 1..(i - 1) : /\ c[j].ev = "getToken.callback"
                                        /\ ~Truthy(c[j].err)
                                        /\ c[j].tokens = c[i].tokens
            /\ c[i].ev = "userinfo.get" => After(a, i, "setCredentials")
            /\ c[i].ev = "verify" =>
                 \E j \in 1..(i - 1) : /\ c[j].ev = "userinfo.get.callback"
                                        /\ ~Truthy(c[j].err)
      /\ Cardinality({i \in DOMAIN c : c[i].ev = "verify"}) <= 1

\* C16 as claimed: the calls of every attempt are in that order, and success
\* or fail is emitted only after the verify callback has been invoked.
C16_Ordered_AsClaimed ==
  \A a \in Attempts :
    /\ CallsOrdered(a)
    /\ out[a].kind \in {"success", "fail"} => Has(a, "verify")

\* C16 as amended: the calls of every attempt are in that order, and success
\* or fail is emitted only after the verify callback has been invoked, except
\* for the fail of the provider-error branch (error=access_denied), which is
\* emitted with no call made at all.
C16_Ordered ==
  \A a \in Attempts :
    /\ CallsOrdered(a)
    /\ out[a].kind \in {"success", "fail"} =>
         \/ /\ Has(a, "verify")
            /\ Has(a, "getToken") /\ Has(a, "setCredentials")
            /\ nDone[a] > 0
         \/ /\ out[a].kind = "fail"
            /\ req[a].query.error = Str("access_denied")
            /\ calls[a] = <<>>

\* C16's case: an attempt went through the exchange, the credentials, the
\* fetch and the verify call, in that order, and ended in success.
C16_Witness ==
  \E a \in Attempts :
    /\ Len(calls[a]) = 6
    /\ [i \in 1..6 |-> calls[a][i].ev]
         = << "getToken", "getToken.callback", "setCredentials", "userinfo.get",
              "userinfo.get.callback", "verify" >>
    /\ out[a].kind = "success"

\* C17: when the exchange succeeded and the userinfo.get callback is called
\* with an error, error is emitted exactly once with that very error, not
\* with what _createOAuthError would make of it; verify is never called, so
\* no success and no fail follows.
C17_ProfileFetchFailed ==
  \A a \in Attempts :
    (Has(a, "userinfo.get.callback") /\ Truthy(The(a, "userinfo.get.callback").err)) =>
      /\ Has(a, "getToken.callback")
      /\ ~Truthy(The(a, "getToken.callback").err)
      /\ nOut[a] = 1
      /\ out[a] = [kind |-> "error", err |-> The(a, "userinfo.get.callback").err,
                   line |-> 108]
      /\ ~Has(a, "verify")
      /\ nDone[a] = 0 /\ thrown[a] = NoCall
      /\ pc[a] = "end"

\* C17's case: the fetch failed with a 401 whose body names an error, which
\* normalization would have turned into "bad code", and the attempt ended in
\* the 401 itself.
C17_Witness ==
  \E a \in Attempts :
    /\ Has(a, "userinfo.get.callback")
    /\ NamesError(The(a, "userinfo.get.callback").err)
    /\ out[a].kind = "error"
    /\ out[a].err.message = Str("http")
    /\ out[a].err.statusCode = [t |-> "number", n |-> 401]

\* The number of calls of the kind e the attempt made.
Count(a, e) == Cardinality({i \in DOMAIN calls[a] : calls[a][i].ev = e})

\* An attempt makes each call at most once, and has no outcome while a call
\* to the provider is pending.
NoRetry ==
  \A a \in Attempts :
    /\ \A e \in {"getToken", "setCredentials", "userinfo.get", "verify", "redirect"} :
         Count(a, e) <= 1
    /\ pc[a] \in {"getToken", "userinfo"} => nOut[a] = 0

\* C18: when getToken and userinfo.get call their callbacks and the verify
\* callback calls done or throws, every attempt that was started ends: in an
\* outcome, or in the redirect.  Nothing is retried: getToken, userinfo.get
\* and verify are each called at most once per attempt; and while a provider
\* call has not resolved the attempt has no outcome.
C18_Terminates ==
  /\ \A a \in Attempts :
       (pc[a] # "idle") ~> (nOut[a] >= 1 \/ Has(a, "redirect"))
  /\ []NoRetry

\* C18's case: one attempt went through both provider calls and the verify
\* call and has its outcome, while the other's exchange is still pending and
\* has none.
C18_Witness ==
  \E a, b \in Attempts :
    /\ Count(a, "getToken") = 1 /\ Count(a, "userinfo.get") = 1
    /\ Count(a, "verify") = 1
    /\ nOut[a] >= 1
    /\ pc[b] = "getToken" /\ nOut[b] = 0

\* What a step may do to the strategy: the client's credentials change only
\* in the step in which an attempt's getToken callback is called with tokens,
\* and become those tokens; a step that ends an attempt from the start (the
\* provider-error and redirect branches) or from a pending exchange (the
\* exchange failed) leaves them as they were; the name and the verify
\* callback stay as constructed.
FrameStep ==
  /\ name' = name
  /\ _verify' = _verify
  /\ oauth2Client' # oauth2Client =>
       \E a \in Attempts :
         /\ pc[a] = "getToken" /\ pc'[a] = "userinfo"
         /\ calls'[a][Len(calls[a]) + 1].ev = "getToken.callback"
         /\ ~Truthy(calls'[a][Len(calls[a]) + 1].err)
         /\ oauth2Client'.credentials = calls'[a][Len(calls[a]) + 1].tokens
  /\ \A a \in Attempts :
       (pc[a] \in {"idle", "getToken"} /\ pc'[a] = "end") =>
         oauth2Client' = oauth2Client

\* C19: authenticate changes the client's credentials only in the step that
\* follows a successful token exchange; attempts that end in the
\* provider-error branch, in the redirect branch or with a failed exchange
\* leave the credentials as they were, and no attempt changes the strategy's
\* name or verify callback.
C19_Frame == [][FrameStep]_vars

\* C19's case: one attempt's exchange failed after the other's had set its
\* tokens on the client, and the client still holds the other's tokens.
C19_Witness ==
  \E a, b \in Attempts :
    /\ a # b
    /\ pc[a] = "end"
    /\ Has(a, "getToken.callback") /\ Truthy(The(a, "getToken.callback").err)
    /\ Has(b, "setCredentials")
    /\ oauth2Client.credentials = The(b, "setCredentials").tokens
    /\ name = "googleapis"

====
